---- MODULE Spec2Model ----
(***************************************************************************)
(* Doki OS sprite tools: the converter (tools/sprite_converter.py) that    *)
(* turns a frame source into a .spr container, and the upload client       *)
(* (tools/upload_animation.py) that validates a .spr file and posts it.    *)
(*                                                                         *)
(* A behaviour is either one conversion run followed by an upload of the   *)
(* file at the conversion's output path, or one run of the upload client   *)
(* on a file that some other program left behind.                          *)
(*                                                                         *)
(* The image library (PIL) is outside the repository.  Its results are     *)
(* modelled by what the converter reads from them: image sizes, pixel      *)
(* lists, the flat palette list of a quantized image and its length.       *)
(***************************************************************************)
EXTENDS Integers, Sequences, FiniteSets, TLC

\* ------------------------------------------------------------------ bounds
\* Largest frame width and height enumerated, and most frames in one source.
MaxDim == 2
MaxFrames == 2

Dims == 1..MaxDim
\* Offsets into the content families of the source images (see MakeImage):
\* with 2 the first frame is single-coloured, with 0 it is not.
Seeds == {0, 2}
\* Values of --fps tried: a custom one, the default, one that does not fit a byte.
FpsArgs == {24, 30, 300}
\* gif.info of the GIFs tried: no duration entry, a zero duration, one giving
\* 1000 fps and one giving 10 fps.
GifInfos == {[has |-> FALSE, duration |-> 0], [has |-> TRUE, duration |-> 0],
             [has |-> TRUE, duration |-> 1], [has |-> TRUE, duration |-> 100]}

\* ------------------------------------------------------- program constants
SPRITE_MAGIC == 1146047305                 \* 0x444F4B49
COLOR_FORMAT_INDEXED_8BIT == 0
COMPRESSION_NONE == 0
DefaultFps == 30
DefaultSize == 64
DefaultFrames == 20
DefaultDuration == 100
MaxUploadSize == 1024 * 1024

\* The RGB colours the modelled images are drawn with.
ColorTable == << <<0, 0, 0>>, <<255, 0, 0>>, <<0, 128, 0>> >>
NumColors == Len(ColorTable)

\* ---------------------------------------------------------------- helpers
RECURSIVE ConcatRange(_, _, _)
ConcatRange(ss, lo, hi) ==
    IF lo > hi THEN << >>
    ELSE IF lo = hi THEN ss[lo]
    ELSE LET mid == (lo + hi) \div 2
         IN  ConcatRange(ss, lo, mid) \o ConcatRange(ss, mid + 1, hi)

\* The concatenation of a sequence of sequences.
Concat(ss) == ConcatRange(ss, 1, Len(ss))

RECURSIVE Pow(_, _)
Pow(b, e) == IF e = 0 THEN 1 ELSE b * Pow(b, e - 1)

Zeros(n) == [i \in 1..n |-> 0]

\* An RGB image of size w x h as PIL hands it over: its pixels row-major.
\* Seed 0 is a single-colour image; the others cycle through the colours.
MakeImage(w, h, seed) ==
    [w |-> w, h |-> h, mode |-> "RGB",
     px |-> [k \in 1..(w * h) |-> ColorTable[((seed * k) % NumColors) + 1]]]

NoFile == [w |-> 0, h |-> 0]
IsImage(e) == e.w > 0

\* The same field packed big-endian ('>' for '<').
PackBE(v, n) == [i \in 1..n |-> (v \div Pow(256, n - i)) % 256]
\* struct.pack of one unsigned little-endian field of n bytes.
PackLE(v, n) == [i \in 1..n |-> (v \div Pow(256, i - 1)) % 256]
\* struct.pack raises struct.error for a value outside the field's range.
Fits(v, n) == v >= 0 /\ (v \div Pow(256, n - 1)) < 256

VARIABLES
    args,       \* the conversion command's parsed arguments
    src,        \* what the frame source holds (folder listing, GIF, generator)
    pc,         \* where the conversion command is
    frames, width, height, fps, color_format, compression, palette,
    err,        \* the exception that ended the conversion, and who raised it
    file,       \* the file at the conversion's output path
    wlog,       \* every f.write call of write_sprite: offset and length
    palHist,    \* every value generate_palette has left in self.palette
    upc,        \* where the upload command is
    uargs,      \* the upload command's arguments and the network's answer
    ufile,      \* the file the upload command was pointed at
    vret, uret, \* return values of validate_spr_file and upload_animation
    diag,       \* the diagnostics printed by the upload command
    posts,      \* HTTP POST requests sent
    exitCode    \* the upload command's exit status

cvars == <<args, src, pc, frames, width, height, fps, color_format,
           compression, palette, err, file, wlog, palHist>>
uvars == <<upc, uargs, ufile, vret, uret, diag, posts, exitCode>>
vars == <<args, src, pc, frames, width, height, fps, color_format,
          compression, palette, err, file, wlog, palHist,
          upc, uargs, ufile, vret, uret, diag, posts, exitCode>>

NoErr == [kind |-> "none", by |-> "none"]
Absent == [exists |-> FALSE, bytes |-> << >>, extra |-> 0]
FileSize(f) == Len(f.bytes) + f.extra

\* ------------------------------------------------------------ the inputs
NoEntries == [i \in 1..MaxFrames |-> NoFile]
NoGif == [has |-> FALSE, duration |-> 0]
NoSrc == [entries |-> NoEntries, seed |-> 0, w |-> 0, h |-> 0, n |-> 0, info |-> NoGif]
NoArgs == [input |-> "none", fps |-> DefaultFps, width |-> DefaultSize,
           height |-> DefaultSize, frames |-> DefaultFrames]

\* A folder: under each of the names 1..MaxFrames an image of some size, or
\* nothing the extension filter keeps.
FolderRuns ==
    { <<[NoArgs EXCEPT !.input = "folder", !.fps = f],
        [NoSrc EXCEPT !.entries = e, !.seed = s]>> :
      f \in FpsArgs, s \in Seeds,
      e \in [1..MaxFrames -> {NoFile} \cup [w : Dims, h : Dims]] }

\* --width/--height values given with a GIF: both left at the default, one
\* given, both given.
GifTargets == {<<DefaultSize, DefaultSize>>, <<1, DefaultSize>>,
               <<1, MaxDim>>, <<MaxDim, 1>>}

GifRuns ==
    { <<[NoArgs EXCEPT !.input = "gif", !.fps = f, !.width = t[1], !.height = t[2]],
        [NoSrc EXCEPT !.seed = s, !.w = d[1], !.h = d[2], !.n = n, !.info = i]>> :
      f \in FpsArgs, s \in Seeds, t \in GifTargets, d \in Dims \X Dims,
      n \in 1..MaxFrames, i \in GifInfos }

TestRuns ==
    { <<[NoArgs EXCEPT !.input = "test", !.fps = f, !.width = d[1],
                       !.height = d[2], !.frames = n],
        [NoSrc EXCEPT !.seed = s]>> :
      f \in FpsArgs, s \in Seeds, d \in Dims \X Dims, n \in 0..MaxFrames }

\* Files the upload command may be pointed at that no conversion wrote.
SampleFiles ==
    { Absent,
      [exists |-> TRUE, bytes |-> << >>, extra |-> 0],
      [exists |-> TRUE, bytes |-> <<73, 75, 79>>, extra |-> 0],
      [exists |-> TRUE, bytes |-> <<0, 0, 0, 0>>, extra |-> 0],
      [exists |-> TRUE, bytes |-> <<68, 79, 75, 73>>, extra |-> 0],
      [exists |-> TRUE, bytes |-> <<73, 75, 79, 68>>, extra |-> 0],
      [exists |-> TRUE, bytes |-> <<73, 75, 79, 68, 1, 0>>, extra |-> 0],
      [exists |-> TRUE, bytes |-> <<73, 75, 79, 68>>, extra |-> MaxUploadSize - 4],
      [exists |-> TRUE, bytes |-> <<73, 75, 79, 68>>, extra |-> MaxUploadSize - 3],
      [exists |-> TRUE, bytes |-> <<0, 75, 79, 68>>, extra |-> MaxUploadSize] }

\* What requests.post can come back with.
NoNet == [kind |-> "none", status |-> 0, json |-> FALSE]
NetOutcomes ==
    { [kind |-> "response", status |-> 200, json |-> TRUE],
      [kind |-> "response", status |-> 200, json |-> FALSE],
      [kind |-> "response", status |-> 500, json |-> FALSE],
      [kind |-> "Timeout", status |-> 0, json |-> FALSE],
      [kind |-> "ConnectionError", status |-> 0, json |-> FALSE],
      [kind |-> "Exception", status |-> 0, json |-> FALSE] }

\* ------------------------------------------------------------------ Init
\* SpriteConverter.__init__, before main has touched the object; the upload
\* command not yet started.
Init ==
    /\ \/ /\ \E r \in FolderRuns \cup GifRuns \cup TestRuns : args = r[1] /\ src = r[2]
          /\ pc = "init"
          /\ ufile = Absent
          /\ uargs = [argsOk |-> TRUE, net |-> NoNet]
       \/ /\ args = NoArgs /\ src = NoSrc
          /\ pc = "none"
          /\ ufile \in SampleFiles
          /\ uargs \in [argsOk : BOOLEAN, net : {NoNet}]
    /\ frames = << >>
    /\ width = 0
    /\ height = 0
    /\ fps = DefaultFps
    /\ color_format = COLOR_FORMAT_INDEXED_8BIT
    /\ compression = COMPRESSION_NONE
    /\ palette = << >>
    /\ err = NoErr
    /\ file = Absent
    /\ wlog = << >>
    /\ palHist = << >>
    /\ upc = "idle"
    /\ vret = FALSE
    /\ uret = FALSE
    /\ diag = << >>
    /\ posts = 0
    /\ exitCode = 0

\* ------------------------------------------------------- the converter
Raise(kind, by) ==
    /\ pc' = "failed"
    /\ err' = [kind |-> kind, by |-> by]

\* main, up to the choice of the loader.
MainStart ==
    /\ pc = "init"
    /\ fps' = args.fps
    /\ pc' = "start"
    /\ UNCHANGED <<args, src, frames, width, height, color_format, compression,
                   palette, err, file, wlog, palHist>>
    /\ UNCHANGED uvars

\* sorted(...) of the names the extension filter keeps.
ImageFiles(entries) ==
    SelectSeq([i \in 1..MaxFrames |-> i], LAMBDA i : IsImage(entries[i]))

\* Image.open(...).convert('RGB') of the file under name i.
OpenImage(i) ==
    MakeImage(src.entries[i].w, src.entries[i].h, (src.seed + i) % NumColors)

\* A loader that accepts a frame of any size.
NoSizeCheck(img, w, h) == FALSE
\* The check of a later frame against the first frame's size.
DifferentSize(img, w, h) == <<img.w, img.h>> # <<w, h>>

LoadFromFolder ==
    /\ pc = "start"
    /\ args.input = "folder"
    /\ LET files == ImageFiles(src.entries)
           imgs == [k \in 1..Len(files) |-> OpenImage(files[k])]
           bad == {k \in 2..Len(files) : DifferentSize(imgs[k], imgs[1].w, imgs[1].h)}
           stop == IF bad = {} THEN Len(files) + 1
                   ELSE CHOOSE k \in bad : \A j \in bad : k <= j
       IN  IF files = << >>
           THEN /\ Raise("NoImageFiles", "load_from_folder")
                /\ UNCHANGED <<frames, width, height>>
           ELSE /\ width' = imgs[1].w
                /\ height' = imgs[1].h
                /\ frames' = SubSeq(imgs, 1, stop - 1)
                /\ IF bad # {}
                   THEN Raise("DifferentSize", "load_from_folder")
                   ELSE pc' = "loaded" /\ UNCHANGED err
    /\ UNCHANGED <<args, src, fps, color_format, compression, palette, file, wlog,
                   palHist>>
    /\ UNCHANGED uvars

\* main's target_w / target_h: None (here 0) for a value left at the default.
Target(v) == IF v # DefaultSize THEN v ELSE 0

\* The frame rate load_from_gif leaves in self.fps.
GifFps(cur, info) ==
    LET duration == IF info.has THEN info.duration ELSE DefaultDuration
    IN  IF duration = 0 THEN cur              \* ZeroDivisionError, swallowed
        ELSE IF cur = DefaultFps THEN 1000 \div duration
        ELSE cur

LoadFromGif ==
    /\ pc = "start"
    /\ args.input = "gif"
    /\ LET tw == Target(args.width)
           th == Target(args.height)
           resize == tw # 0 /\ th # 0
           w == IF resize THEN tw ELSE src.w
           h == IF resize THEN th ELSE src.h
       IN  /\ width' = w
           /\ height' = h
           /\ fps' = GifFps(fps, src.info)
           /\ frames' = [k \in 1..src.n |-> MakeImage(w, h, (src.seed + k) % NumColors)]
    /\ pc' = "loaded"
    /\ UNCHANGED <<args, src, color_format, compression, palette, err, file, wlog,
                   palHist>>
    /\ UNCHANGED uvars

\* generate_test_pattern: num_frames frames of width x height.
GenerateTestPattern(w, h, n, seed) ==
    [k \in 1..n |-> MakeImage(w, h, (seed + k) % NumColors)]

LoadTestPattern ==
    /\ pc = "start"
    /\ args.input = "test"
    /\ frames' = GenerateTestPattern(args.width, args.height, args.frames, src.seed)
    /\ width' = args.width
    /\ height' = args.height
    /\ pc' = "loaded"
    /\ UNCHANGED <<args, src, fps, color_format, compression, palette, err, file, wlog,
                   palHist>>
    /\ UNCHANGED uvars

\* ------------------------------------------------------------ quantizing
Min(a, b) == IF a < b THEN a ELSE b

\* The colours of the pixels of all frames (the combined image).
UsedColors(fs) ==
    UNION { {fs[i].px[k] : k \in 1..Len(fs[i].px)} : i \in 1..Len(fs) }

\* Image.quantize(colors=256) of the combined image: with no more colours than
\* palette slots, every colour gets a slot of its own.
QuantColors(fs) == SelectSeq(ColorTable, LAMBDA c : c \in UsedColors(fs))

\* quantized.getpalette(): the flat r, g, b list.  Depending on the library
\* build it is padded to 768 values or holds the used colours only; the
\* converter does not look at its length.
GetPalette(fs, full) ==
    LET flat == Concat(QuantColors(fs))
    IN  IF full THEN flat \o Zeros(768 - Len(flat)) ELSE flat

\* The palette loop stopping one entry early (range(255)).
PaletteEntriesShort(pd) ==
    [i \in 1..Min(255, Len(pd) \div 3) |->
        <<pd[3 * i - 2], pd[3 * i - 1], pd[3 * i], 255>>]
\* The entries the loop over range(256) appends to self.palette before it
\* ends or palette_data[...] raises IndexError.
PaletteEntries(pd) ==
    [i \in 1..Min(256, Len(pd) \div 3) |->
        <<pd[3 * i - 2], pd[3 * i - 1], pd[3 * i], 255>>]

\* A loop that never runs off the end of palette_data.
PaletteReadAlways(pd) == TRUE
\* Whether every palette_data[...] of the loop is there to read.
PaletteReadOk(pd) == Len(pd) >= 3 * 256

\* frame.quantize(palette=quantized): each pixel's palette index.
QuantizeFrame(f, colors) ==
    [w |-> f.w, h |-> f.h, mode |-> "P",
     px |-> [k \in 1..Len(f.px) |->
                (CHOOSE j \in 1..Len(colors) : colors[j] = f.px[k]) - 1]]

GeneratePalette ==
    /\ pc = "loaded"
    /\ \E full \in BOOLEAN :
          LET pd == GetPalette(frames, full)
          IN  /\ palette' = PaletteEntries(pd)
              /\ palHist' = Append(palHist, PaletteEntries(pd))
              /\ IF PaletteReadOk(pd)
                 THEN /\ frames' = [i \in 1..Len(frames) |->
                                       QuantizeFrame(frames[i], QuantColors(frames))]
                      /\ pc' = "quantized"
                      /\ UNCHANGED err
                 ELSE /\ Raise("IndexError", "generate_palette")
                      /\ UNCHANGED frames
    /\ UNCHANGED <<args, src, width, height, fps, color_format, compression, file, wlog>>
    /\ UNCHANGED uvars

\* --------------------------------------------------------------- writing
HeaderFits ==
    /\ Fits(SPRITE_MAGIC, 4)
    /\ Fits(Len(frames), 2) /\ Fits(width, 2) /\ Fits(height, 2)
    /\ Fits(fps, 1) /\ Fits(color_format, 1) /\ Fits(compression, 1)

\* struct.pack('<I H H H H B B B 49s', ...)
HeaderBytes ==
    PackLE(SPRITE_MAGIC, 4) \o PackLE(1, 2) \o PackLE(Len(frames), 2)
    \o PackLE(width, 2) \o PackLE(height, 2) \o PackLE(fps, 1)
    \o PackLE(color_format, 1) \o PackLE(compression, 1) \o Zeros(49)

\* A palette entry written blue first.
PaletteEntryBytesBGRA(e) == <<e[3], e[2], e[1], e[4]>>
\* struct.pack('BBBB', r, g, b, a)
PaletteEntryBytes(e) == <<e[1], e[2], e[3], e[4]>>

\* frame.tobytes() of an indexed frame: one byte per pixel, row-major.
ToBytes(f) == f.px

\* The offset table _calculate_frame_offsets describes: write_sprite does not
\* write it.
FrameOffsetTable ==
    Concat([i \in 1..Len(frames) |->
               PackLE(64 + 256 * 4 + Len(frames) * 4 + (i - 1) * width * height, 4)])

\* write_sprite with the frame offset table written after the palette.
WriteCallsWithTable ==
    <<[part |-> "header", data |-> HeaderBytes]>>
    \o [i \in 1..Len(palette) |->
           [part |-> "palette", data |-> PaletteEntryBytes(palette[i])]]
    \o <<[part |-> "offsets", data |-> FrameOffsetTable]>>
    \o [i \in 1..Len(frames) |-> [part |-> "frame", data |-> ToBytes(frames[i])]]
\* The f.write calls of write_sprite, in order, with the part each belongs to.
WriteCalls ==
    <<[part |-> "header", data |-> HeaderBytes]>>
    \o [i \in 1..Len(palette) |->
           [part |-> "palette", data |-> PaletteEntryBytes(palette[i])]]
    \o [i \in 1..Len(frames) |-> [part |-> "frame", data |-> ToBytes(frames[i])]]

RECURSIVE WriteRange(_, _, _, _)
\* f.write of calls lo..hi, the first at file position pos and each next one
\* where the one before it ended: <<the bytes written, the log of the calls>>.
WriteRange(calls, lo, hi, pos) ==
    IF lo > hi THEN << << >>, << >> >>
    ELSE IF lo = hi
    THEN <<calls[lo].data,
           <<[part |-> calls[lo].part, at |-> pos, n |-> Len(calls[lo].data)]>> >>
    ELSE LET mid == (lo + hi) \div 2
             left == WriteRange(calls, lo, mid, pos)
             right == WriteRange(calls, mid + 1, hi, pos + Len(left[1]))
         IN  <<left[1] \o right[1], left[2] \o right[2]>>

\* The file opened with 'wb' and every call written to it.
WriteAll(calls) == WriteRange(calls, 1, Len(calls), 0)

WriteSprite ==
    /\ pc = "quantized"
    /\ IF HeaderFits
       THEN LET out == WriteAll(WriteCalls)
            IN  /\ file' = [exists |-> TRUE, bytes |-> out[1], extra |-> 0]
                /\ wlog' = out[2]
                /\ pc' = "done"
                /\ UNCHANGED err
       ELSE \* open(output_path, 'wb') has created the file; struct.error
            /\ file' = [exists |-> TRUE, bytes |-> << >>, extra |-> 0]
            /\ wlog' = << >>
            /\ Raise("StructError", "_write_header")
    /\ UNCHANGED <<args, src, frames, width, height, fps, color_format,
                   compression, palette, palHist>>
    /\ UNCHANGED uvars

\* ------------------------------------------------------ the upload command
\* The file at the path the upload command is given: the conversion's output
\* path after a conversion run, another file otherwise.
UploadTarget == IF pc = "none" THEN ufile ELSE file

\* The magic in the other byte order (D O K I).
ExpectedMagicBE == <<68, 79, 75, 73>>
\* expected_magic = b'IKOD'
ExpectedMagic == <<73, 75, 79, 68>>

\* A validator with one diagnostic for every failure.
ValidateSprFileOneMessage(f) ==
    IF ~f.exists \/ Len(f.bytes) < 4 \/ SubSeq(f.bytes, 1, 4) # ExpectedMagic
       \/ FileSize(f) > MaxUploadSize
    THEN <<FALSE, "Error: Invalid sprite file format">>
    ELSE <<TRUE, "Valid .spr file">>
\* validate_spr_file: <<return value, diagnostic printed>>.
ValidateSprFile(f) ==
    IF ~f.exists THEN <<FALSE, "Error: File not found">>
    ELSE LET magic_bytes == SubSeq(f.bytes, 1, Min(4, Len(f.bytes)))
         IN  IF Len(magic_bytes) < 4
             THEN <<FALSE, "Error: File too small to be valid sprite">>
             ELSE IF magic_bytes # ExpectedMagic
             THEN <<FALSE, "Error: Invalid sprite file format">>
             ELSE IF FileSize(f) > MaxUploadSize
             THEN <<FALSE, "Error: File too large">>
             ELSE <<TRUE, "Valid .spr file">>

\* An uploader that takes any response for success.
UploadAnimationAnyStatus(net) ==
    IF net.kind = "response" THEN <<TRUE, "Upload successful!">>
    ELSE <<FALSE, "Upload error">>
\* upload_animation: <<return value, diagnostic printed>> for what
\* requests.post came back with.
UploadAnimation(net) ==
    IF net.kind = "response"
    THEN IF net.status = 200
         THEN IF net.json THEN <<TRUE, "Upload successful!">>
              ELSE <<FALSE, "Upload error">>       \* response.json() raised
         ELSE <<FALSE, "Upload failed: HTTP">>
    ELSE IF net.kind = "Timeout" THEN <<FALSE, "Upload timeout (>30 seconds)">>
    ELSE IF net.kind = "ConnectionError" THEN <<FALSE, "Connection failed">>
    ELSE <<FALSE, "Upload error">>

CanUpload == upc = "idle" /\ pc \in {"none", "done", "failed"}

\* main with the wrong number of arguments.
MainUsage ==
    /\ CanUpload
    /\ ~uargs.argsOk
    /\ diag' = <<"Usage">>
    /\ exitCode' = 1
    /\ upc' = "exit"
    /\ UNCHANGED <<uargs, ufile, vret, uret, posts>>
    /\ UNCHANGED cvars

\* main up to and including the call of validate_spr_file.
MainValidate ==
    /\ CanUpload
    /\ uargs.argsOk
    /\ LET r == ValidateSprFile(UploadTarget)
       IN  /\ vret' = r[1]
           /\ diag' = <<r[2]>>
           /\ IF r[1] THEN upc' = "validated" /\ UNCHANGED exitCode
              ELSE upc' = "exit" /\ exitCode' = 1
    /\ UNCHANGED <<uargs, ufile, uret, posts>>
    /\ UNCHANGED cvars

\* main from the call of upload_animation to sys.exit.
MainUpload ==
    /\ upc = "validated"
    /\ \E net \in NetOutcomes :
          LET r == UploadAnimation(net)
          IN  /\ uargs' = [uargs EXCEPT !.net = net]
              /\ posts' = posts + 1
              /\ uret' = r[1]
              /\ diag' = Append(diag, r[2])
              /\ exitCode' = IF r[1] THEN 0 ELSE 1
    /\ upc' = "exit"
    /\ UNCHANGED <<ufile, vret>>
    /\ UNCHANGED cvars

Next ==
    \/ MainStart
    \/ LoadFromFolder
    \/ LoadFromGif
    \/ LoadTestPattern
    \/ GeneratePalette
    \/ WriteSprite
    \/ MainUsage
    \/ MainValidate
    \/ MainUpload

Spec == Init /\ [][Next]_vars

\* ================================================================ claims
Terminal == pc \in {"done", "failed"}
Loaded == pc \in {"loaded", "quantized", "done"}

\* The RGB frames the frame source of this run delivers, in its order.
SourceImages ==
    IF args.input = "folder"
    THEN [k \in 1..Len(ImageFiles(src.entries)) |-> OpenImage(ImageFiles(src.entries)[k])]
    ELSE IF args.input = "gif"
    THEN [k \in 1..src.n |-> MakeImage(width, height, (src.seed + k) % NumColors)]
    ELSE GenerateTestPattern(args.width, args.height, args.frames, src.seed)

\* The sizes of the source's frames, before any resizing.
SourceSizes ==
    IF args.input = "folder"
    THEN [k \in 1..Len(ImageFiles(src.entries)) |->
             <<src.entries[ImageFiles(src.entries)[k]].w,
               src.entries[ImageFiles(src.entries)[k]].h>>]
    ELSE IF args.input = "gif" THEN [k \in 1..src.n |-> <<src.w, src.h>>]
    ELSE [k \in 1..args.frames |-> <<args.width, args.height>>]

SourceMismatch == \E k \in 1..Len(SourceSizes) : SourceSizes[k] # SourceSizes[1]

\* A little-endian 16-bit field at byte offset off (offsets count from 0).
U16(b, off) == b[off + 1] + 256 * b[off + 2]

\* C1: whenever write_sprite has serialized the converter, the first 64 bytes
\* of the file are: the bytes I K O D (0x444F4B49 as a little-endian 32-bit
\* word) at offset 0, version 1 at 4, the number of frames at 6, the width at
\* 8, the height at 10 (2 bytes each, little-endian), fps at 12, colorFormat 0
\* at 13, compression 0 at 14 and 49 zero bytes at 15..63.
C1_HeaderLayout ==
    pc = "done" =>
        LET b == file.bytes
        IN  /\ Len(b) >= 64
            /\ \A i \in 1..64 : b[i] \in 0..255
            /\ SubSeq(b, 1, 4) = <<73, 75, 79, 68>>
            /\ b[1] + 256 * b[2] + 65536 * b[3] + 16777216 * b[4] = 1146047305
            /\ <<b[5], b[6]>> = <<1, 0>>
            /\ U16(b, 6) = Len(frames)
            /\ U16(b, 8) = width
            /\ U16(b, 10) = height
            /\ b[13] = fps
            /\ b[14] = 0
            /\ b[15] = 0
            /\ \A i \in 16..64 : b[i] = 0

C1_Witness ==
    /\ pc = "done" /\ Len(frames) = 2 /\ width = 2 /\ height = 1 /\ fps = 24
    /\ Len(file.bytes) >= 64

\* C2: in every file a conversion has written, the palette occupies offsets
\* 64..1087 and frame N (from 0, in source order) occupies the width*height
\* bytes from offset 1088 + N*width*height, with no offset table; the file is
\* 1088 + width*height*frameCount bytes long; and the bytes were written by
\* calls that each start where the one before ended, header first, then
\* palette, then frames.
C2_SequentialLayout ==
    pc = "done" =>
        LET b == file.bytes
            n == Len(frames)
            fs == width * height
        IN  /\ n = Len(SourceImages)
            /\ FileSize(file) = 1088 + fs * n
            /\ Len(b) = 1088 + fs * n
            /\ \A i \in 1..256 :
                  <<b[64 + 4 * i - 3], b[64 + 4 * i - 2], b[64 + 4 * i - 1], b[64 + 4 * i]>>
                      = palette[i]
            /\ \A k \in 0..(n - 1) :
                  /\ SubSeq(b, 1088 + k * fs + 1, 1088 + (k + 1) * fs) = frames[k + 1].px
                  /\ \A q \in 1..fs :
                        SubSeq(palette[b[1088 + k * fs + q] + 1], 1, 3)
                            = SourceImages[k + 1].px[q]
            /\ Len(wlog) = 1 + 256 + n
            /\ wlog[1].at = 0
            /\ \A i \in 2..Len(wlog) : wlog[i].at = wlog[i - 1].at + wlog[i - 1].n
            /\ wlog[1].part = "header"
            /\ \A i \in 2..257 : wlog[i].part = "palette"
            /\ \A i \in 258..Len(wlog) :
                  /\ wlog[i].part = "frame"
                  /\ wlog[i].at = 1088 + (i - 258) * fs
                  /\ wlog[i].n = fs

C2_Witness ==
    /\ pc = "done" /\ Len(frames) = 2 /\ width = 2 /\ height = 2
    /\ Len(file.bytes) = 1096
    /\ wlog[259].at = 1092
    /\ frames[1].px # frames[2].px

\* The decoder of the container layout: header fields at their offsets, 256
\* palette entries of 4 bytes from offset 64, frames of width*height bytes
\* from offset 1088.
ParseSprite(b) ==
    LET fc == U16(b, 6)
        w == U16(b, 8)
        h == U16(b, 10)
    IN  [frameCount |-> fc, width |-> w, height |-> h, fps |-> b[13],
         palette |-> [i \in 1..256 |-> SubSeq(b, 64 + 4 * (i - 1) + 1, 64 + 4 * i)],
         frames |-> [k \in 1..fc |->
                        SubSeq(b, 1088 + (k - 1) * w * h + 1, 1088 + k * w * h)]]

\* C3: parsing the bytes a conversion has written gives back the converter's
\* frame count, width, height and fps, its palette entries in index order and
\* each frame's index bytes in frame order.
C3_RoundTrip ==
    pc = "done" =>
        ParseSprite(file.bytes) =
            [frameCount |-> Len(frames), width |-> width, height |-> height,
             fps |-> fps, palette |-> palette,
             frames |-> [k \in 1..Len(frames) |-> frames[k].px]]

C3_Witness ==
    /\ pc = "done" /\ Len(frames) = 2 /\ width = 1 /\ height = 2
    /\ ParseSprite(file.bytes).palette[2] = <<255, 0, 0, 255>>
    /\ ParseSprite(file.bytes).frames[1] # ParseSprite(file.bytes).frames[2]

\* C4: validate_spr_file has reported invalid for every file that is missing,
\* has fewer than 4 bytes or does not start with 49 4B 4F 44, and valid for
\* every file a conversion has written (when no larger than the ceiling); the
\* file holding just 49 4B 4F 44 has passed and four zero bytes have failed.
C4_MagicCheck ==
    (upc # "idle" /\ uargs.argsOk) =>
        LET f == UploadTarget
        IN  /\ (~f.exists \/ Len(f.bytes) < 4 \/ SubSeq(f.bytes, 1, 4) # <<73, 75, 79, 68>>)
                  => ~vret
            /\ (pc = "done" /\ FileSize(f) <= 1048576) => vret
            /\ (f.exists /\ f.bytes = <<73, 75, 79, 68>> /\ f.extra = 0) => vret
            /\ (f.exists /\ f.bytes = <<0, 0, 0, 0>>) => ~vret

C4_Witness == upc # "idle" /\ pc = "done" /\ vret /\ Len(file.bytes) > 1088

\* C5 (as claimed): a conversion whose frame source yields zero frames ends in
\* an EmptyInput error and writes no output file.
C5_EmptyInputFails ==
    (Terminal /\ Len(SourceSizes) = 0) =>
        /\ pc = "failed"
        /\ err.kind = "NoImageFiles"
        /\ ~file.exists

C7_NoPartialOutput == pc = "failed" => ~file.exists

\* C8: once generate_palette has succeeded the palette has exactly 256 entries
\* of alpha 255, however many colours the frames hold; the palette part of a
\* written file is the 1024 bytes at offsets 64..1087.
C8_PaletteComplete ==
    /\ pc \in {"quantized", "done"} =>
          /\ Len(palette) = 256
          /\ \A i \in 1..Len(palette) : Len(palette[i]) = 4 /\ palette[i][4] = 255
    /\ pc = "done" =>
          LET pw == {i \in 1..Len(wlog) : wlog[i].part = "palette"}
          IN  /\ Cardinality(pw) * 4 = 1024
              /\ \A i \in pw : wlog[i].n = 4 /\ wlog[i].at = 64 + 4 * (i - 2)
              /\ \A i \in 1..256 : file.bytes[64 + 4 * i] = 255

C8_Witness ==
    /\ pc = "quantized" /\ Len(frames) = 1 /\ width = 1 /\ height = 1
    /\ Cardinality(UsedColors(SourceImages)) = 1
    /\ Len(palette) = 256

\* The frames-per-second hint of the source, when it has one.
HasFpsHint == args.input = "gif" /\ src.info.has /\ src.info.duration > 0

\* C9 (as claimed): the converter's fps is the source's hint when the source
\* has one and the --fps value otherwise, whatever that value is.
C9_FpsFromHint ==
    Loaded => fps = IF HasFpsHint THEN 1000 \div src.info.duration ELSE args.fps

\* The failure kinds of the upload command.
FailureKind(f, net) ==
    IF ~f.exists THEN "FileMissing"
    ELSE IF Len(f.bytes) < 4 THEN "TooSmall"
    ELSE IF SubSeq(f.bytes, 1, 4) # <<73, 75, 79, 68>> THEN "InvalidFormat"
    ELSE IF FileSize(f) > 1048576 THEN "SizeExceeded"
    ELSE IF net.kind = "Timeout" THEN "Timeout"
    ELSE IF net.kind = "ConnectionError" THEN "ConnectionFailure"
    ELSE IF net.kind = "response" /\ net.status # 200 THEN "HttpStatus"
    ELSE IF net.kind = "response" /\ net.json THEN "none"
    ELSE "Other"

\* What validate_spr_file, and after it upload_animation, hand their caller
\* and print for file f and network answer net.
Outcome(f, net) ==
    LET v == ValidateSprFile(f)
        u == UploadAnimation(net)
    IN  IF v[1] THEN [ret |-> u[1], diag |-> u[2]] ELSE [ret |-> v[1], diag |-> v[2]]

Scenarios == (SampleFiles \cup {UploadTarget}) \X NetOutcomes

UploadFailed == upc = "exit" /\ uargs.argsOk /\ exitCode # 0

\* C10 (as claimed): a failed upload run hands its caller a value that no run
\* failing in another way hands its caller.
C10_DistinctValues ==
    UploadFailed =>
        \A s \in Scenarios :
            FailureKind(s[1], s[2]) \notin {"none", FailureKind(UploadTarget, uargs.net)}
                => Outcome(s[1], s[2]).ret # (IF vret THEN uret ELSE vret)

\* C10 (amended): a failed upload run prints a diagnostic that no run failing
\* in another way prints, while the value handed to the caller is False and
\* the exit status 1 whatever the failure.
C10_DistinctDiagnostics ==
    UploadFailed =>
        /\ (IF vret THEN uret ELSE vret) = FALSE
        /\ exitCode = 1
        /\ \A s \in Scenarios :
              FailureKind(s[1], s[2]) \notin {"none", FailureKind(UploadTarget, uargs.net)}
                  => /\ Outcome(s[1], s[2]).diag # diag[Len(diag)]
                     /\ Outcome(s[1], s[2]).ret = FALSE

C10_Witness ==
    /\ UploadFailed /\ uargs.net.kind = "Timeout" /\ posts = 1
    /\ diag[Len(diag)] = "Upload timeout (>30 seconds)"

\* C11: in every conversion run the palette is generated once, after all
\* frames of the source are loaded in their final size and from the colours of
\* all of them; frames are indexed only against the complete palette; writing
\* begins only when every frame is indexed; and the palette stays as it was
\* generated until the write has ended.
C11_PipelineOrder ==
    /\ Len(palHist) <= 1
    /\ Len(palHist) = 1 =>
          /\ pc \in {"quantized", "done", "failed"}
          /\ Len(frames) = Len(SourceImages)
          /\ \A k \in 1..Len(frames) : frames[k].w = width /\ frames[k].h = height
          /\ palette = palHist[1]
    /\ (\E k \in 1..Len(frames) : frames[k].mode = "P") =>
          /\ Len(palHist) = 1
          /\ Len(palette) = 256
          /\ \A k \in 1..Len(frames) : frames[k].mode = "P"
    /\ pc \in {"quantized", "done"} =>
          LET used == UsedColors(SourceImages)
          IN  /\ Len(palHist) = 1
              /\ {SubSeq(palette[i], 1, 3) : i \in 1..Cardinality(used)} = used
              /\ \A k \in 1..Len(frames) :
                    /\ frames[k].mode = "P"
                    /\ \A q \in 1..Len(frames[k].px) :
                          SubSeq(palette[frames[k].px[q] + 1], 1, 3) = SourceImages[k].px[q]
    /\ (file.exists \/ wlog # << >>) =>
          /\ Len(palHist) = 1
          /\ Len(palette) = 256
          /\ \A k \in 1..Len(frames) : frames[k].mode = "P"

C11_Witness ==
    /\ pc = "done" /\ args.input = "gif" /\ <<width, height>> # <<src.w, src.h>>
    /\ Len(frames) = 2 /\ Cardinality(UsedColors(SourceImages)) > 1
    /\ Len(palHist) = 1 /\ palette = palHist[1]

\* C12 (as claimed): the upload command sends at most one POST, and only for
\* a file validate_spr_file has accepted; it exits 0 exactly when validation
\* passed and the request came back with HTTP 200.
C12_ExitZeroIff200 ==
    /\ posts <= 1
    /\ posts = 1 => vret
    /\ upc = "exit" =>
          /\ exitCode = 0 <=>
                (vret /\ posts = 1 /\ uargs.net.kind = "response" /\ uargs.net.status = 200)
          /\ exitCode # 0 => exitCode > 0

\* C12 (amended): the upload command sends at most one POST, and only for a
\* file validate_spr_file has accepted; it exits 0 exactly when validation
\* passed and the request came back with HTTP 200 and a body that parses as
\* JSON, and exits 1 otherwise.
C12_ExitZeroIff200Json ==
    /\ posts <= 1
    /\ posts = 1 =>
          /\ vret
          /\ upc = "exit"
          /\ UploadTarget.exists
          /\ SubSeq(UploadTarget.bytes, 1, 4) = <<73, 75, 79, 68>>
    /\ upc = "exit" =>
          /\ exitCode = 0 <=>
                (/\ uargs.argsOk /\ vret /\ posts = 1
                 /\ uargs.net.kind = "response" /\ uargs.net.status = 200
                 /\ uargs.net.json)
          /\ exitCode \in {0, 1}

C12_Witness ==
    /\ upc = "exit" /\ exitCode = 0 /\ posts = 1 /\ vret /\ uret
    /\ pc = "done" /\ uargs.net.status = 200

====
